---- MODULE Spec2Model ----
(***************************************************************************)
(* A model of the Luma colour library (src/luma.ts, namespace Luma at      *)
(* lines 598-943, the keyword tables at 945-1153, cssNumber at 1156-1162). *)
(*                                                                         *)
(* Text is a sequence of UTF-16 code units, each written as a one-element  *)
(* string.  A JavaScript number is an exact fraction n/d in lowest terms   *)
(* with d > 0; NaN is 0/0, +Infinity is 1/0 and -Infinity is -1/0.         *)
(* Binary rounding and the sign of zero are not represented.               *)
(***************************************************************************)
EXTENDS Integers, Sequences, FiniteSets, TLC

VARIABLES op, text, nums, result, self, maker

vars == <<op, text, nums, result, self, maker>>

----------------------------------------------------------------------------
(* Numbers *)

Abs(i) == IF i < 0 THEN -i ELSE i

Sgn(i) == IF i < 0 THEN -1 ELSE IF i > 0 THEN 1 ELSE 0

RECURSIVE Gcd(_, _)
Gcd(a, b) == IF b = 0 THEN a ELSE Gcd(b, a % b)

Norm(n, d) ==
  IF d = 0 THEN [n |-> Sgn(n), d |-> 0]
  ELSE LET g == Gcd(Abs(n), Abs(d))
       IN  [n |-> Sgn(d) * (n \div g), d |-> Abs(d) \div g]

Num(i) == [n |-> i, d |-> 1]

Frac(n, d) == Norm(n, d)

NaN == [n |-> 0, d |-> 0]

IsNaN(x) == x.d = 0 /\ x.n = 0

IsFinite(x) == x.d # 0

IsInteger(x) == x.d = 1

Lcm(a, b) == (a \div Gcd(a, b)) * b

NumNeg(x) == [n |-> -x.n, d |-> x.d]

NumAdd(x, y) ==
  IF x.d = 0 /\ y.d = 0 THEN (IF x.n = y.n THEN x ELSE NaN)
  ELSE IF x.d = 0 THEN x
  ELSE IF y.d = 0 THEN y
  ELSE LET l == Lcm(x.d, y.d)
       IN  Norm(x.n * (l \div x.d) + y.n * (l \div y.d), l)

NumSub(x, y) == NumAdd(x, NumNeg(y))

NumMul(x, y) ==
  IF x.d = 0 \/ y.d = 0 THEN Norm(x.n * y.n, 0)
  ELSE LET g1 == Gcd(Abs(x.n), y.d)
           g2 == Gcd(Abs(y.n), x.d)
       IN  Norm((x.n \div g1) * (y.n \div g2), (x.d \div g2) * (y.d \div g1))

NumInv(y) == Norm(y.d, y.n)

NumDiv(x, y) == NumMul(x, NumInv(y))

\* the === of two numbers: NaN equals nothing
NumEq(x, y) == ~IsNaN(x) /\ ~IsNaN(y) /\ x = y

NumLt(x, y) ==
  IF IsNaN(x) \/ IsNaN(y) THEN FALSE
  ELSE IF x.d = 0 \/ y.d = 0
       THEN (x.d = 0 /\ x.n < 0 /\ ~(y.d = 0 /\ y.n < 0))
            \/ (y.d = 0 /\ y.n > 0 /\ ~(x.d = 0 /\ x.n > 0))
  ELSE LET l == Lcm(x.d, y.d)
       IN  x.n * (l \div x.d) < y.n * (l \div y.d)

NumLe(x, y) == NumLt(x, y) \/ NumEq(x, y)

\* Math.max and Math.min: NaN if either argument is NaN
MathMax(x, y) == IF IsNaN(x) \/ IsNaN(y) THEN NaN ELSE IF NumLt(x, y) THEN y ELSE x

MathMin(x, y) == IF IsNaN(x) \/ IsNaN(y) THEN NaN ELSE IF NumLt(y, x) THEN y ELSE x

MathFloor(x) == IF x.d = 0 THEN x ELSE Num(x.n \div x.d)

\* Math.round: the nearest integer, a tie going up
MathRound(x) == IF x.d = 0 THEN x ELSE MathFloor(NumAdd(x, Frac(1, 2)))

NumTrunc(x) == IF x.d = 0 THEN x ELSE Num(Sgn(x.n) * (Abs(x.n) \div x.d))

\* the % operator: the remainder has the sign of the dividend
NumRem(x, y) ==
  IF IsNaN(x) \/ IsNaN(y) \/ x.d = 0 \/ y.n = 0 THEN NaN
  ELSE IF y.d = 0 THEN x
  ELSE NumSub(x, NumMul(y, NumTrunc(NumDiv(x, y))))

clamp(num, min, max) == MathMin(MathMax(num, min), max)

clamp01(num) == clamp(num, Num(0), Num(1))

clampFF(num) == clamp(MathRound(num), Num(0), Num(255))

bound01(num, max) == NumDiv(clamp(num, Num(0), max), max)

\* mod as the bare % operator, whose result takes the sign of the dividend
mod_Truncating(dividend, divisor) == NumRem(dividend, divisor)

mod(dividend, divisor) == NumRem(NumAdd(NumRem(dividend, divisor), divisor), divisor)

----------------------------------------------------------------------------
(* Characters and text *)

Digits == <<"0", "1", "2", "3", "4", "5", "6", "7", "8", "9">>

LowerLetters ==
  <<"a", "b", "c", "d", "e", "f", "g", "h", "i", "j", "k", "l", "m",
    "n", "o", "p", "q", "r", "s", "t", "u", "v", "w", "x", "y", "z">>

UpperLetters ==
  <<"A", "B", "C", "D", "E", "F", "G", "H", "I", "J", "K", "L", "M",
    "N", "O", "P", "Q", "R", "S", "T", "U", "V", "W", "X", "Y", "Z">>

Range(s) == {s[i] : i \in DOMAIN s}

IndexOf(s, c) == CHOOSE i \in DOMAIN s : s[i] = c

IsDigit(c) == c \in Range(Digits)

IsLower(c) == c \in Range(LowerLetters)

IsUpper(c) == c \in Range(UpperLetters)

IsLetter(c) == IsLower(c) \/ IsUpper(c)

toLowerCaseChar(c) == IF IsUpper(c) THEN LowerLetters[IndexOf(UpperLetters, c)] ELSE c

toLowerCase(s) == [i \in DOMAIN s |-> toLowerCaseChar(s[i])]

\* [\dA-F] under the i flag
IsHexDigit(c) == IsDigit(c) \/ toLowerCaseChar(c) \in {"a", "b", "c", "d", "e", "f"}

HexVal(c) ==
  IF IsDigit(c) THEN IndexOf(Digits, c) - 1
  ELSE 9 + IndexOf(LowerLetters, toLowerCaseChar(c))

\* the five characters of matchers.ws
IsWs(c) == c \in {" ", "\t", "\n", "\f", "\r"}

slice(s, from, to) == SubSeq(s, from, to)

RECURSIVE HexPrefixLen(_)
HexPrefixLen(s) ==
  IF s = <<>> \/ ~IsHexDigit(Head(s)) THEN 0 ELSE 1 + HexPrefixLen(Tail(s))

RECURSIVE HexValue(_)
HexValue(s) == IF s = <<>> THEN 0 ELSE 16 * HexValue(SubSeq(s, 1, Len(s) - 1)) + HexVal(s[Len(s)])

\* parseInt(s, 16) of text with no sign, blank or 0x prefix: the value of the
\* longest prefix of hexadecimal digits, NaN when that prefix is empty
parseInt16(s) ==
  LET k == HexPrefixLen(s)
  IN  IF k = 0 THEN NaN ELSE Num(HexValue(SubSeq(s, 1, k)))

RECURSIVE Digits16(_)
Digits16(i) ==
  LET d == IF i % 16 < 10 THEN Digits[(i % 16) + 1] ELSE LowerLetters[(i % 16) - 9]
  IN  IF i < 16 THEN <<d>> ELSE Append(Digits16(i \div 16), d)

\* Number.prototype.toString(16) of a channel value
toString16(x) ==
  IF IsNaN(x) THEN <<"N", "a", "N">>
  ELSE IF x.n < 0 THEN <<"-">> \o Digits16(-x.n)
  ELSE Digits16(x.n)

----------------------------------------------------------------------------
(* Outcomes of a call: a Color, null, a thrown TypeError, or another object *)

Null == [kind |-> "null"]

Thrown == [kind |-> "throw"]

OtherObject == [kind |-> "object"]

\* new Color(r, g, b, a)
Color(r, g, b, a) ==
  [kind |-> "color", r |-> clampFF(r), g |-> clampFF(g), b |-> clampFF(b), a |-> clamp01(a)]

IsColor(c) == c.kind = "color"

\* Color.prototype.equals
equals(c1, c2) ==
  /\ NumEq(c1.r, c2.r)
  /\ NumEq(c1.g, c2.g)
  /\ NumEq(c1.b, c2.b)
  /\ NumEq(c1.a, c2.a)

----------------------------------------------------------------------------
(* matchers: the hexadecimal patterns *)

MatchHex6(s) == Len(s) = 7 /\ s[1] = "#" /\ \A i \in 2..7 : IsHexDigit(s[i])

MatchHex3(s) == Len(s) = 4 /\ s[1] = "#" /\ \A i \in 2..4 : IsHexDigit(s[i])

MatchHex3Long(s) ==
  /\ MatchHex6(s)
  /\ \A i \in {2, 4, 6} : toLowerCaseChar(s[i]) = toLowerCaseChar(s[i + 1])

shortenHex(s) == IF MatchHex3Long(s) THEN <<"#", s[2], s[4], s[6]>> ELSE s

\* Pad2 with the leading "0" forgotten
Pad2_NoZero(s) == s

Pad2(s) == LET t == <<"0">> \o s IN SubSeq(t, Len(t) - 1, Len(t))

toHexString(c, useShort) ==
  LET hex == <<"#">> \o Pad2(toString16(c.r)) \o Pad2(toString16(c.g)) \o Pad2(toString16(c.b))
  IN  IF useShort THEN shortenHex(hex) ELSE hex

hex6(s) ==
  IF ~MatchHex6(s) THEN Null
  ELSE Color(parseInt16(SubSeq(s, 2, 3)), parseInt16(SubSeq(s, 4, 5)),
             parseInt16(SubSeq(s, 6, 7)), Num(1))

hex3(s) ==
  IF ~MatchHex3(s) THEN Null
  ELSE Color(NumMul(Num(17), parseInt16(<<s[2]>>)), NumMul(Num(17), parseInt16(<<s[3]>>)),
             NumMul(Num(17), parseInt16(<<s[4]>>)), Num(1))

rgb(r, g, b, a) == Color(r, g, b, a)

----------------------------------------------------------------------------
(* Colour model conversions *)

\* line 737: the hue scaled to a fraction of a turn
hslHue(h) == NumDiv(mod(h, Num(360)), Num(360))

\* the inner function hue of Luma.hsl, with the m1 and m2 it closes over
hue(h0, m1, m2) ==
  LET h1 == IF NumLt(h0, Num(0)) THEN NumAdd(h0, Num(1)) ELSE h0
      h2 == IF NumLt(Num(1), h1) THEN NumSub(h1, Num(1)) ELSE h1
  IN  IF NumLt(NumMul(h2, Num(6)), Num(1))
        THEN NumAdd(m1, NumMul(NumMul(NumSub(m2, m1), h2), Num(6)))
      ELSE IF NumLt(NumMul(h2, Num(2)), Num(1)) THEN m2
      ELSE IF NumLt(NumMul(h2, Num(3)), Num(2))
        THEN NumAdd(m1, NumMul(NumMul(NumSub(m2, m1), NumSub(Frac(2, 3), h2)), Num(6)))
      ELSE m1

\* hsl with a true gray in place of the black of line 742
hsl_GrayAtZero(h0, s0, l0, a) ==
  LET l == bound01(l0, Num(100))
      m2 == IF NumLe(l, Frac(1, 2)) THEN NumMul(l, NumAdd(bound01(s0, Num(100)), Num(1)))
            ELSE NumSub(NumAdd(l, bound01(s0, Num(100))), NumMul(l, bound01(s0, Num(100))))
      m1 == NumSub(NumMul(l, Num(2)), m2)
  IN  rgb(NumMul(Num(255), hue(NumAdd(hslHue(h0), Frac(1, 3)), m1, m2)),
          NumMul(Num(255), hue(hslHue(h0), m1, m2)),
          NumMul(Num(255), hue(NumSub(hslHue(h0), Frac(1, 3)), m1, m2)),
          a)

hsl(h0, s0, l0, a) ==
  LET h == hslHue(h0)
      s == bound01(s0, Num(100))
      l == bound01(l0, Num(100))
      m2 == IF NumLe(l, Frac(1, 2)) THEN NumMul(l, NumAdd(s, Num(1)))
            ELSE NumSub(NumAdd(l, s), NumMul(l, s))
      m1 == NumSub(NumMul(l, Num(2)), m2)
  IN  IF NumEq(s, Num(0)) THEN Color(Num(0), Num(0), Num(0), a)
      ELSE rgb(NumMul(Num(255), hue(NumAdd(h, Frac(1, 3)), m1, m2)),
               NumMul(Num(255), hue(h, m1, m2)),
               NumMul(Num(255), hue(NumSub(h, Frac(1, 3)), m1, m2)),
               a)

\* v of Luma.hsv: line 772 reads s, not the v argument
hsv_v(s0, v0) == bound01(bound01(s0, Num(100)), Num(100))

\* l2 of Luma.hsv before its halving
hsv_l2(s0, v0) == NumMul(NumSub(Num(2), bound01(s0, Num(100))), hsv_v(s0, v0))

\* what s2 is divided by when l2 is not 2
hsv_divisor(s0, v0) ==
  IF NumLt(hsv_l2(s0, v0), Num(1)) THEN hsv_l2(s0, v0) ELSE NumSub(Num(2), hsv_l2(s0, v0))

hsv(h, s0, v0, a) ==
  LET s == bound01(s0, Num(100))
      v == hsv_v(s0, v0)
      l2 == hsv_l2(s0, v0)
      s2 == IF NumEq(l2, Num(2)) THEN Num(0)
            ELSE NumDiv(NumMul(s, v), hsv_divisor(s0, v0))
  IN  hsl(h, NumMul(s2, Num(100)), NumMul(NumDiv(l2, Num(2)), Num(100)), a)

----------------------------------------------------------------------------
(* parseFloat and cssNumber *)

RECURSIVE DigitRun(_, _)
\* how many decimal digits s has from position p on
DigitRun(s, p) == IF p > Len(s) \/ ~IsDigit(s[p]) THEN 0 ELSE 1 + DigitRun(s, p + 1)

RECURSIVE DecValue(_)
DecValue(s) == IF s = <<>> THEN 0 ELSE 10 * DecValue(SubSeq(s, 1, Len(s) - 1)) + HexVal(s[Len(s)])

RECURSIVE Pow10(_)
Pow10(k) == IF k = 0 THEN 1 ELSE 10 * Pow10(k - 1)

\* parseFloat of text with no leading blank reads the longest prefix
\*   [+-]? digits [. digits]? ([eE] [+-]? digits)?
\* that has a digit in its mantissa, and is NaN when there is none

\* where the digits of the mantissa start
MantissaStart(s) == IF s # <<>> /\ s[1] \in {"-", "+"} THEN 2 ELSE 1

IntLen(s) == DigitRun(s, MantissaStart(s))

HasDot(s) ==
  LET p == MantissaStart(s) + IntLen(s)
  IN  p <= Len(s) /\ s[p] = "."

FracLen(s) == IF HasDot(s) THEN DigitRun(s, MantissaStart(s) + IntLen(s) + 1) ELSE 0

\* the position after the mantissa
MantissaEnd(s) ==
  MantissaStart(s) + IntLen(s) + (IF HasDot(s) /\ IntLen(s) + FracLen(s) > 0 THEN 1 + FracLen(s) ELSE 0)

Mantissa(s) ==
  LET p == MantissaStart(s) + IntLen(s)
  IN  NumAdd(Num(DecValue(SubSeq(s, MantissaStart(s), p - 1))),
             Frac(DecValue(SubSeq(s, p + 1, p + FracLen(s))), Pow10(FracLen(s))))

\* the exponent part that starts at position p, as <<negative, digits>>
ExponentAt(s, p) ==
  IF ~(p <= Len(s) /\ s[p] \in {"e", "E"}) THEN <<FALSE, <<>>>>
  ELSE LET q == IF p + 1 <= Len(s) /\ s[p + 1] \in {"-", "+"} THEN p + 2 ELSE p + 1
       IN  <<p + 1 <= Len(s) /\ s[p + 1] = "-", SubSeq(s, q, q + DigitRun(s, q) - 1)>>

Scaled(mant, e) ==
  IF e[1] THEN NumDiv(mant, Num(Pow10(DecValue(e[2]))))
  ELSE NumMul(mant, Num(Pow10(DecValue(e[2]))))

parseFloat(s) ==
  IF IntLen(s) + FracLen(s) = 0 THEN NaN
  ELSE IF s[1] = "-" THEN NumNeg(Scaled(Mantissa(s), ExponentAt(s, MantissaEnd(s))))
  ELSE Scaled(Mantissa(s), ExponentAt(s, MantissaEnd(s)))

\* lines 1156-1162, for an input that is a string
cssNumber(input, max) ==
  IF input # <<>> /\ input[Len(input)] = "%"
  THEN MathMin(MathMax(NumDiv(NumMul(max, parseFloat(SubSeq(input, 1, Len(input) - 1))),
                              Num(100)), Num(0)), max)
  ELSE MathMin(MathMax(parseFloat(input), Num(0)), max)

----------------------------------------------------------------------------
(* colorKeywords: each entry is <<name, value>> *)

colorKeywords_css3 ==
  {
    <<<<"a", "l", "i", "c", "e", "b", "l", "u", "e">>, <<"#", "f", "0", "f", "8", "f", "f">>>>,
    <<<<"a", "n", "t", "i", "q", "u", "e", "w", "h", "i", "t", "e">>, <<"#", "f", "a", "e", "b", "d", "7">>>>,
    <<<<"a", "q", "u", "a">>, <<"#", "0", "0", "f", "f", "f", "f">>>>,
    <<<<"a", "q", "u", "a", "m", "a", "r", "i", "n", "e">>, <<"#", "7", "f", "f", "f", "d", "4">>>>,
    <<<<"a", "z", "u", "r", "e">>, <<"#", "f", "0", "f", "f", "f", "f">>>>,
    <<<<"b", "e", "i", "g", "e">>, <<"#", "f", "5", "f", "5", "d", "c">>>>,
    <<<<"b", "i", "s", "q", "u", "e">>, <<"#", "f", "f", "e", "4", "c", "4">>>>,
    <<<<"b", "l", "a", "c", "k">>, <<"#", "0", "0", "0", "0", "0", "0">>>>,
    <<<<"b", "l", "a", "n", "c", "h", "e", "d", "a", "l", "m", "o", "n", "d">>, <<"#", "f", "f", "e", "b", "c", "d">>>>,
    <<<<"b", "l", "u", "e">>, <<"#", "0", "0", "0", "0", "f", "f">>>>,
    <<<<"b", "l", "u", "e", "v", "i", "o", "l", "e", "t">>, <<"#", "8", "a", "2", "b", "e", "2">>>>,
    <<<<"b", "r", "o", "w", "n">>, <<"#", "a", "5", "2", "a", "2", "a">>>>,
    <<<<"b", "u", "r", "l", "y", "w", "o", "o", "d">>, <<"#", "d", "e", "b", "8", "8", "7">>>>,
    <<<<"c", "a", "d", "e", "t", "b", "l", "u", "e">>, <<"#", "5", "f", "9", "e", "a", "0">>>>,
    <<<<"c", "h", "a", "r", "t", "r", "e", "u", "s", "e">>, <<"#", "7", "f", "f", "f", "0", "0">>>>,
    <<<<"c", "h", "o", "c", "o", "l", "a", "t", "e">>, <<"#", "d", "2", "6", "9", "1", "e">>>>,
    <<<<"c", "o", "r", "a", "l">>, <<"#", "f", "f", "7", "f", "5", "0">>>>,
    <<<<"c", "o", "r", "n", "f", "l", "o", "w", "e", "r", "b", "l", "u", "e">>, <<"#", "6", "4", "9", "5", "e", "d">>>>,
    <<<<"c", "o", "r", "n", "s", "i", "l", "k">>, <<"#", "f", "f", "f", "8", "d", "c">>>>,
    <<<<"c", "r", "i", "m", "s", "o", "n">>, <<"#", "d", "c", "1", "4", "3", "c">>>>,
    <<<<"c", "y", "a", "n">>, <<"#", "0", "0", "f", "f", "f", "f">>>>,
    <<<<"d", "a", "r", "k", "b", "l", "u", "e">>, <<"#", "0", "0", "0", "0", "8", "b">>>>,
    <<<<"d", "a", "r", "k", "c", "y", "a", "n">>, <<"#", "0", "0", "8", "b", "8", "b">>>>,
    <<<<"d", "a", "r", "k", "g", "o", "l", "d", "e", "n", "r", "o", "d">>, <<"#", "b", "8", "8", "6", "0", "b">>>>,
    <<<<"d", "a", "r", "k", "g", "r", "a", "y">>, <<"#", "a", "9", "a", "9", "a", "9">>>>,
    <<<<"d", "a", "r", "k", "g", "r", "e", "e", "n">>, <<"#", "0", "0", "6", "4", "0", "0">>>>,
    <<<<"d", "a", "r", "k", "g", "r", "e", "y">>, <<"#", "a", "9", "a", "9", "a", "9">>>>,
    <<<<"d", "a", "r", "k", "k", "h", "a", "k", "i">>, <<"#", "b", "d", "b", "7", "6", "b">>>>,
    <<<<"d", "a", "r", "k", "m", "a", "g", "e", "n", "t", "a">>, <<"#", "8", "b", "0", "0", "8", "b">>>>,
    <<<<"d", "a", "r", "k", "o", "l", "i", "v", "e", "g", "r", "e", "e", "n">>, <<"#", "5", "5", "6", "b", "2", "f">>>>,
    <<<<"d", "a", "r", "k", "o", "r", "a", "n", "g", "e">>, <<"#", "f", "f", "8", "c", "0", "0">>>>,
    <<<<"d", "a", "r", "k", "o", "r", "c", "h", "i", "d">>, <<"#", "9", "9", "3", "2", "c", "c">>>>,
    <<<<"d", "a", "r", "k", "r", "e", "d">>, <<"#", "8", "b", "0", "0", "0", "0">>>>,
    <<<<"d", "a", "r", "k", "s", "a", "l", "m", "o", "n">>, <<"#", "e", "9", "9", "6", "7", "a">>>>,
    <<<<"d", "a", "r", "k", "s", "e", "a", "g", "r", "e", "e", "n">>, <<"#", "8", "f", "b", "c", "8", "f">>>>,
    <<<<"d", "a", "r", "k", "s", "l", "a", "t", "e", "b", "l", "u", "e">>, <<"#", "4", "8", "3", "d", "8", "b">>>>,
    <<<<"d", "a", "r", "k", "s", "l", "a", "t", "e", "g", "r", "a", "y">>, <<"#", "2", "f", "4", "f", "4", "f">>>>,
    <<<<"d", "a", "r", "k", "s", "l", "a", "t", "e", "g", "r", "e", "y">>, <<"#", "2", "f", "4", "f", "4", "f">>>>,
    <<<<"d", "a", "r", "k", "t", "u", "r", "q", "u", "o", "i", "s", "e">>, <<"#", "0", "0", "c", "e", "d", "1">>>>,
    <<<<"d", "a", "r", "k", "v", "i", "o", "l", "e", "t">>, <<"#", "9", "4", "0", "0", "d", "3">>>>,
    <<<<"d", "e", "e", "p", "p", "i", "n", "k">>, <<"#", "f", "f", "1", "4", "9", "3">>>>,
    <<<<"d", "e", "e", "p", "s", "k", "y", "b", "l", "u", "e">>, <<"#", "0", "0", "b", "f", "f", "f">>>>,
    <<<<"d", "i", "m", "g", "r", "a", "y">>, <<"#", "6", "9", "6", "9", "6", "9">>>>,
    <<<<"d", "i", "m", "g", "r", "e", "y">>, <<"#", "6", "9", "6", "9", "6", "9">>>>,
    <<<<"d", "o", "d", "g", "e", "r", "b", "l", "u", "e">>, <<"#", "1", "e", "9", "0", "f", "f">>>>,
    <<<<"f", "i", "r", "e", "b", "r", "i", "c", "k">>, <<"#", "b", "2", "2", "2", "2", "2">>>>,
    <<<<"f", "l", "o", "r", "a", "l", "w", "h", "i", "t", "e">>, <<"#", "f", "f", "f", "a", "f", "0">>>>,
    <<<<"f", "o", "r", "e", "s", "t", "g", "r", "e", "e", "n">>, <<"#", "2", "2", "8", "b", "2", "2">>>>,
    <<<<"f", "u", "c", "h", "s", "i", "a">>, <<"#", "f", "f", "0", "0", "f", "f">>>>,
    <<<<"g", "a", "i", "n", "s", "b", "o", "r", "o">>, <<"#", "d", "c", "d", "c", "d", "c">>>>,
    <<<<"g", "h", "o", "s", "t", "w", "h", "i", "t", "e">>, <<"#", "f", "8", "f", "8", "f", "f">>>>,
    <<<<"g", "o", "l", "d">>, <<"#", "f", "f", "d", "7", "0", "0">>>>,
    <<<<"g", "o", "l", "d", "e", "n", "r", "o", "d">>, <<"#", "d", "a", "a", "5", "2", "0">>>>,
    <<<<"g", "r", "a", "y">>, <<"#", "8", "0", "8", "0", "8", "0">>>>,
    <<<<"g", "r", "e", "e", "n">>, <<"#", "0", "0", "8", "0", "0", "0">>>>,
    <<<<"g", "r", "e", "e", "n", "y", "e", "l", "l", "o", "w">>, <<"#", "a", "d", "f", "f", "2", "f">>>>,
    <<<<"g", "r", "e", "y">>, <<"#", "8", "0", "8", "0", "8", "0">>>>,
    <<<<"h", "o", "n", "e", "y", "d", "e", "w">>, <<"#", "f", "0", "f", "f", "f", "0">>>>,
    <<<<"h", "o", "t", "p", "i", "n", "k">>, <<"#", "f", "f", "6", "9", "b", "4">>>>,
    <<<<"i", "n", "d", "i", "a", "n", "r", "e", "d">>, <<"#", "c", "d", "5", "c", "5", "c">>>>,
    <<<<"i", "n", "d", "i", "g", "o">>, <<"#", "4", "b", "0", "0", "8", "2">>>>,
    <<<<"i", "v", "o", "r", "y">>, <<"#", "f", "f", "f", "f", "f", "0">>>>,
    <<<<"k", "h", "a", "k", "i">>, <<"#", "f", "0", "e", "6", "8", "c">>>>,
    <<<<"l", "a", "v", "e", "n", "d", "e", "r">>, <<"#", "e", "6", "e", "6", "f", "a">>>>,
    <<<<"l", "a", "v", "e", "n", "d", "e", "r", "b", "l", "u", "s", "h">>, <<"#", "f", "f", "f", "0", "f", "5">>>>,
    <<<<"l", "a", "w", "n", "g", "r", "e", "e", "n">>, <<"#", "7", "c", "f", "c", "0", "0">>>>,
    <<<<"l", "e", "m", "o", "n", "c", "h", "i", "f", "f", "o", "n">>, <<"#", "f", "f", "f", "a", "c", "d">>>>,
    <<<<"l", "i", "g", "h", "t", "b", "l", "u", "e">>, <<"#", "a", "d", "d", "8", "e", "6">>>>,
    <<<<"l", "i", "g", "h", "t", "c", "o", "r", "a", "l">>, <<"#", "f", "0", "8", "0", "8", "0">>>>,
    <<<<"l", "i", "g", "h", "t", "c", "y", "a", "n">>, <<"#", "e", "0", "f", "f", "f", "f">>>>,
    <<<<"l", "i", "g", "h", "t", "g", "o", "l", "d", "e", "n", "r", "o", "d", "y", "e", "l", "l", "o", "w">>, <<"#", "f", "a", "f", "a", "d", "2">>>>,
    <<<<"l", "i", "g", "h", "t", "g", "r", "a", "y">>, <<"#", "d", "3", "d", "3", "d", "3">>>>,
    <<<<"l", "i", "g", "h", "t", "g", "r", "e", "e", "n">>, <<"#", "9", "0", "e", "e", "9", "0">>>>,
    <<<<"l", "i", "g", "h", "t", "g", "r", "e", "y">>, <<"#", "d", "3", "d", "3", "d", "3">>>>,
    <<<<"l", "i", "g", "h", "t", "p", "i", "n", "k">>, <<"#", "f", "f", "b", "6", "c", "1">>>>,
    <<<<"l", "i", "g", "h", "t", "s", "a", "l", "m", "o", "n">>, <<"#", "f", "f", "a", "0", "7", "a">>>>,
    <<<<"l", "i", "g", "h", "t", "s", "e", "a", "g", "r", "e", "e", "n">>, <<"#", "2", "0", "b", "2", "a", "a">>>>,
    <<<<"l", "i", "g", "h", "t", "s", "k", "y", "b", "l", "u", "e">>, <<"#", "8", "7", "c", "e", "f", "a">>>>,
    <<<<"l", "i", "g", "h", "t", "s", "l", "a", "t", "e", "g", "r", "a", "y">>, <<"#", "7", "7", "8", "8", "9", "9">>>>,
    <<<<"l", "i", "g", "h", "t", "s", "l", "a", "t", "e", "g", "r", "e", "y">>, <<"#", "7", "7", "8", "8", "9", "9">>>>,
    <<<<"l", "i", "g", "h", "t", "s", "t", "e", "e", "l", "b", "l", "u", "e">>, <<"#", "b", "0", "c", "4", "d", "e">>>>,
    <<<<"l", "i", "g", "h", "t", "y", "e", "l", "l", "o", "w">>, <<"#", "f", "f", "f", "f", "e", "0">>>>,
    <<<<"l", "i", "m", "e">>, <<"#", "0", "0", "f", "f", "0", "0">>>>,
    <<<<"l", "i", "m", "e", "g", "r", "e", "e", "n">>, <<"#", "3", "2", "c", "d", "3", "2">>>>,
    <<<<"l", "i", "n", "e", "n">>, <<"#", "f", "a", "f", "0", "e", "6">>>>,
    <<<<"m", "a", "g", "e", "n", "t", "a">>, <<"#", "f", "f", "0", "0", "f", "f">>>>,
    <<<<"m", "a", "r", "o", "o", "n">>, <<"#", "8", "0", "0", "0", "0", "0">>>>,
    <<<<"m", "e", "d", "i", "u", "m", "a", "q", "u", "a", "m", "a", "r", "i", "n", "e">>, <<"#", "6", "6", "c", "d", "a", "a">>>>,
    <<<<"m", "e", "d", "i", "u", "m", "b", "l", "u", "e">>, <<"#", "0", "0", "0", "0", "c", "d">>>>,
    <<<<"m", "e", "d", "i", "u", "m", "o", "r", "c", "h", "i", "d">>, <<"#", "b", "a", "5", "5", "d", "3">>>>,
    <<<<"m", "e", "d", "i", "u", "m", "p", "u", "r", "p", "l", "e">>, <<"#", "9", "3", "7", "0", "d", "b">>>>,
    <<<<"m", "e", "d", "i", "u", "m", "s", "e", "a", "g", "r", "e", "e", "n">>, <<"#", "3", "c", "b", "3", "7", "1">>>>,
    <<<<"m", "e", "d", "i", "u", "m", "s", "l", "a", "t", "e", "b", "l", "u", "e">>, <<"#", "7", "b", "6", "8", "e", "e">>>>,
    <<<<"m", "e", "d", "i", "u", "m", "s", "p", "r", "i", "n", "g", "g", "r", "e", "e", "n">>, <<"#", "0", "0", "f", "a", "9", "a">>>>,
    <<<<"m", "e", "d", "i", "u", "m", "t", "u", "r", "q", "u", "o", "i", "s", "e">>, <<"#", "4", "8", "d", "1", "c", "c">>>>,
    <<<<"m", "e", "d", "i", "u", "m", "v", "i", "o", "l", "e", "t", "r", "e", "d">>, <<"#", "c", "7", "1", "5", "8", "5">>>>,
    <<<<"m", "i", "d", "n", "i", "g", "h", "t", "b", "l", "u", "e">>, <<"#", "1", "9", "1", "9", "7", "0">>>>,
    <<<<"m", "i", "n", "t", "c", "r", "e", "a", "m">>, <<"#", "f", "5", "f", "f", "f", "a">>>>,
    <<<<"m", "i", "s", "t", "y", "r", "o", "s", "e">>, <<"#", "f", "f", "e", "4", "e", "1">>>>,
    <<<<"m", "o", "c", "c", "a", "s", "i", "n">>, <<"#", "f", "f", "e", "4", "b", "5">>>>,
    <<<<"n", "a", "v", "a", "j", "o", "w", "h", "i", "t", "e">>, <<"#", "f", "f", "d", "e", "a", "d">>>>,
    <<<<"n", "a", "v", "y">>, <<"#", "0", "0", "0", "0", "8", "0">>>>,
    <<<<"o", "l", "d", "l", "a", "c", "e">>, <<"#", "f", "d", "f", "5", "e", "6">>>>,
    <<<<"o", "l", "i", "v", "e">>, <<"#", "8", "0", "8", "0", "0", "0">>>>,
    <<<<"o", "l", "i", "v", "e", "d", "r", "a", "b">>, <<"#", "6", "b", "8", "e", "2", "3">>>>,
    <<<<"o", "r", "a", "n", "g", "e">>, <<"#", "f", "f", "a", "5", "0", "0">>>>,
    <<<<"o", "r", "a", "n", "g", "e", "r", "e", "d">>, <<"#", "f", "f", "4", "5", "0", "0">>>>,
    <<<<"o", "r", "c", "h", "i", "d">>, <<"#", "d", "a", "7", "0", "d", "6">>>>,
    <<<<"p", "a", "l", "e", "g", "o", "l", "d", "e", "n", "r", "o", "d">>, <<"#", "e", "e", "e", "8", "a", "a">>>>,
    <<<<"p", "a", "l", "e", "g", "r", "e", "e", "n">>, <<"#", "9", "8", "f", "b", "9", "8">>>>,
    <<<<"p", "a", "l", "e", "t", "u", "r", "q", "u", "o", "i", "s", "e">>, <<"#", "a", "f", "e", "e", "e", "e">>>>,
    <<<<"p", "a", "l", "e", "v", "i", "o", "l", "e", "t", "r", "e", "d">>, <<"#", "d", "b", "7", "0", "9", "3">>>>,
    <<<<"p", "a", "p", "a", "y", "a", "w", "h", "i", "p">>, <<"#", "f", "f", "e", "f", "d", "5">>>>,
    <<<<"p", "e", "a", "c", "h", "p", "u", "f", "f">>, <<"#", "f", "f", "d", "a", "b", "9">>>>,
    <<<<"p", "e", "r", "u">>, <<"#", "c", "d", "8", "5", "3", "f">>>>,
    <<<<"p", "i", "n", "k">>, <<"#", "f", "f", "c", "0", "c", "b">>>>,
    <<<<"p", "l", "u", "m">>, <<"#", "d", "d", "a", "0", "d", "d">>>>,
    <<<<"p", "o", "w", "d", "e", "r", "b", "l", "u", "e">>, <<"#", "b", "0", "e", "0", "e", "6">>>>,
    <<<<"p", "u", "r", "p", "l", "e">>, <<"#", "8", "0", "0", "0", "8", "0">>>>,
    <<<<"r", "e", "b", "e", "c", "c", "a", "p", "u", "r", "p", "l", "e">>, <<"#", "6", "6", "3", "3", "9", "9">>>>,
    <<<<"r", "e", "d">>, <<"#", "f", "f", "0", "0", "0", "0">>>>,
    <<<<"r", "o", "s", "y", "b", "r", "o", "w", "n">>, <<"#", "b", "c", "8", "f", "8", "f">>>>,
    <<<<"r", "o", "y", "a", "l", "b", "l", "u", "e">>, <<"#", "4", "1", "6", "9", "e", "1">>>>,
    <<<<"s", "a", "d", "d", "l", "e", "b", "r", "o", "w", "n">>, <<"#", "8", "b", "4", "5", "1", "3">>>>,
    <<<<"s", "a", "l", "m", "o", "n">>, <<"#", "f", "a", "8", "0", "7", "2">>>>,
    <<<<"s", "a", "n", "d", "y", "b", "r", "o", "w", "n">>, <<"#", "f", "4", "a", "4", "6", "0">>>>,
    <<<<"s", "e", "a", "g", "r", "e", "e", "n">>, <<"#", "2", "e", "8", "b", "5", "7">>>>,
    <<<<"s", "e", "a", "s", "h", "e", "l", "l">>, <<"#", "f", "f", "f", "5", "e", "e">>>>,
    <<<<"s", "i", "e", "n", "n", "a">>, <<"#", "a", "0", "5", "2", "2", "d">>>>,
    <<<<"s", "i", "l", "v", "e", "r">>, <<"#", "c", "0", "c", "0", "c", "0">>>>,
    <<<<"s", "k", "y", "b", "l", "u", "e">>, <<"#", "8", "7", "c", "e", "e", "b">>>>,
    <<<<"s", "l", "a", "t", "e", "b", "l", "u", "e">>, <<"#", "6", "a", "5", "a", "c", "d">>>>,
    <<<<"s", "l", "a", "t", "e", "g", "r", "a", "y">>, <<"#", "7", "0", "8", "0", "9", "0">>>>,
    <<<<"s", "l", "a", "t", "e", "g", "r", "e", "y">>, <<"#", "7", "0", "8", "0", "9", "0">>>>,
    <<<<"s", "n", "o", "w">>, <<"#", "f", "f", "f", "a", "f", "a">>>>,
    <<<<"s", "p", "r", "i", "n", "g", "g", "r", "e", "e", "n">>, <<"#", "0", "0", "f", "f", "7", "f">>>>,
    <<<<"s", "t", "e", "e", "l", "b", "l", "u", "e">>, <<"#", "4", "6", "8", "2", "b", "4">>>>,
    <<<<"t", "a", "n">>, <<"#", "d", "2", "b", "4", "8", "c">>>>,
    <<<<"t", "e", "a", "l">>, <<"#", "0", "0", "8", "0", "8", "0">>>>,
    <<<<"t", "h", "i", "s", "t", "l", "e">>, <<"#", "d", "8", "b", "f", "d", "8">>>>,
    <<<<"t", "o", "m", "a", "t", "o">>, <<"#", "f", "f", "6", "3", "4", "7">>>>,
    <<<<"t", "u", "r", "q", "u", "o", "i", "s", "e">>, <<"#", "4", "0", "e", "0", "d", "0">>>>,
    <<<<"v", "i", "o", "l", "e", "t">>, <<"#", "e", "e", "8", "2", "e", "e">>>>,
    <<<<"w", "h", "e", "a", "t">>, <<"#", "f", "5", "d", "e", "b", "3">>>>,
    <<<<"w", "h", "i", "t", "e">>, <<"#", "f", "f", "f", "f", "f", "f">>>>,
    <<<<"w", "h", "i", "t", "e", "s", "m", "o", "k", "e">>, <<"#", "f", "5", "f", "5", "f", "5">>>>,
    <<<<"y", "e", "l", "l", "o", "w">>, <<"#", "f", "f", "f", "f", "0", "0">>>>,
    <<<<"y", "e", "l", "l", "o", "w", "g", "r", "e", "e", "n">>, <<"#", "9", "a", "c", "d", "3", "2">>>>
  }

colorKeywords_html4 ==
  {
    <<<<"a", "q", "u", "a">>, <<"#", "0", "0", "f", "f", "f", "f">>>>,
    <<<<"b", "l", "a", "c", "k">>, <<"#", "0", "0", "0", "0", "0", "0">>>>,
    <<<<"b", "l", "u", "e">>, <<"#", "0", "0", "0", "0", "f", "f">>>>,
    <<<<"f", "u", "c", "h", "s", "i", "a">>, <<"#", "f", "f", "0", "0", "f", "f">>>>,
    <<<<"g", "r", "a", "y">>, <<"#", "8", "0", "8", "0", "8", "0">>>>,
    <<<<"g", "r", "e", "e", "n">>, <<"#", "0", "0", "8", "0", "0", "0">>>>,
    <<<<"l", "i", "m", "e">>, <<"#", "0", "0", "f", "f", "0", "0">>>>,
    <<<<"m", "a", "r", "o", "o", "n">>, <<"#", "8", "0", "0", "0", "0", "0">>>>,
    <<<<"n", "a", "v", "y">>, <<"#", "0", "0", "0", "0", "8", "0">>>>,
    <<<<"o", "l", "i", "v", "e">>, <<"#", "8", "0", "8", "0", "0", "0">>>>,
    <<<<"p", "u", "r", "p", "l", "e">>, <<"#", "8", "0", "0", "0", "8", "0">>>>,
    <<<<"r", "e", "d">>, <<"#", "f", "f", "0", "0", "0", "0">>>>,
    <<<<"s", "i", "l", "v", "e", "r">>, <<"#", "c", "0", "c", "0", "c", "0">>>>,
    <<<<"t", "e", "a", "l">>, <<"#", "0", "0", "8", "0", "8", "0">>>>,
    <<<<"w", "h", "i", "t", "e">>, <<"#", "f", "f", "f", "f", "f", "f">>>>,
    <<<<"y", "e", "l", "l", "o", "w">>, <<"#", "f", "f", "f", "f", "0", "0">>>>
  }

\* the names of lines 1124-1151, lower-cased by line 1152
colorKeywords_css2System ==
  {
    <<"a", "c", "t", "i", "v", "e", "b", "o", "r", "d", "e", "r">>,
    <<"a", "c", "t", "i", "v", "e", "c", "a", "p", "t", "i", "o", "n">>,
    <<"a", "p", "p", "w", "o", "r", "k", "s", "p", "a", "c", "e">>,
    <<"b", "a", "c", "k", "g", "r", "o", "u", "n", "d">>,
    <<"b", "u", "t", "t", "o", "n", "f", "a", "c", "e">>,
    <<"b", "u", "t", "t", "o", "n", "h", "i", "g", "h", "l", "i", "g", "h", "t">>,
    <<"b", "u", "t", "t", "o", "n", "s", "h", "a", "d", "o", "w">>,
    <<"b", "u", "t", "t", "o", "n", "t", "e", "x", "t">>,
    <<"c", "a", "p", "t", "i", "o", "n", "t", "e", "x", "t">>,
    <<"g", "r", "a", "y", "t", "e", "x", "t">>,
    <<"h", "i", "g", "h", "l", "i", "g", "h", "t">>,
    <<"h", "i", "g", "h", "l", "i", "g", "h", "t", "t", "e", "x", "t">>,
    <<"i", "n", "a", "c", "t", "i", "v", "e", "b", "o", "r", "d", "e", "r">>,
    <<"i", "n", "a", "c", "t", "i", "v", "e", "c", "a", "p", "t", "i", "o", "n">>,
    <<"i", "n", "a", "c", "t", "i", "v", "e", "c", "a", "p", "t", "i", "o", "n", "t", "e", "x", "t">>,
    <<"i", "n", "f", "o", "b", "a", "c", "k", "g", "r", "o", "u", "n", "d">>,
    <<"i", "n", "f", "o", "t", "e", "x", "t">>,
    <<"m", "e", "n", "u">>,
    <<"m", "e", "n", "u", "t", "e", "x", "t">>,
    <<"s", "c", "r", "o", "l", "l", "b", "a", "r">>,
    <<"t", "h", "r", "e", "e", "d", "d", "a", "r", "k", "s", "h", "a", "d", "o", "w">>,
    <<"t", "h", "r", "e", "e", "d", "f", "a", "c", "e">>,
    <<"t", "h", "r", "e", "e", "d", "h", "i", "g", "h", "l", "i", "g", "h", "t">>,
    <<"t", "h", "r", "e", "e", "d", "l", "i", "g", "h", "t", "s", "h", "a", "d", "o", "w">>,
    <<"t", "h", "r", "e", "e", "d", "s", "h", "a", "d", "o", "w">>,
    <<"w", "i", "n", "d", "o", "w">>,
    <<"w", "i", "n", "d", "o", "w", "f", "r", "a", "m", "e">>,
    <<"w", "i", "n", "d", "o", "w", "t", "e", "x", "t">>
  }

\* table.hasOwnProperty(key)
hasOwnProperty(table, key) == \E e \in table : e[1] = key

\* table[key], for a key the table has
lookup(table, key) == (CHOOSE e \in table : e[1] = key)[2]

----------------------------------------------------------------------------
(* String literals of the source *)

STR_rgb == <<"r", "g", "b">>

STR_rgba == <<"r", "g", "b", "a">>

STR_hsl == <<"h", "s", "l">>

STR_hsla == <<"h", "s", "l", "a">>

STR_hsv == <<"h", "s", "v">>

STR_hsva == <<"h", "s", "v", "a">>

STR_constructor == <<"c", "o", "n", "s", "t", "r", "u", "c", "t", "o", "r">>

STR_transparent == <<"t", "r", "a", "n", "s", "p", "a", "r", "e", "n", "t">>

STR_orange == <<"o", "r", "a", "n", "g", "e">>

STR_hash_ffa500 == <<"#", "f", "f", "a", "5", "0", "0">>

----------------------------------------------------------------------------
(* matchers: white space and the functional form *)

RECURSIVE DropLeadingWs(_)
DropLeadingWs(s) == IF s # <<>> /\ IsWs(Head(s)) THEN DropLeadingWs(Tail(s)) ELSE s

RECURSIVE DropTrailingWs(_)
DropTrailingWs(s) ==
  IF s # <<>> /\ IsWs(s[Len(s)]) THEN DropTrailingWs(SubSeq(s, 1, Len(s) - 1)) ELSE s

\* matchers.trim
trim(s) == DropTrailingWs(DropLeadingWs(s))

HasSign(t) == t # <<>> /\ t[1] \in {"-", "+"}

\* cssInteger: [-+]?\d+ over the whole of t
MatchCssInteger(t) ==
  LET p == IF HasSign(t) THEN 2 ELSE 1
  IN  p <= Len(t) /\ \A i \in p..Len(t) : IsDigit(t[i])

\* cssNumber: [-+]?\d*\.\d+(?:[eE]cssInteger)? over the whole of t
MatchCssNumber(t) ==
  LET p == IF HasSign(t) THEN 2 ELSE 1
      dot == p + DigitRun(t, p)
      nf == DigitRun(t, dot + 1)
      q == dot + 1 + nf
  IN  /\ dot <= Len(t) /\ t[dot] = "."
      /\ nf > 0
      /\ \/ q = Len(t) + 1
         \/ q <= Len(t) /\ t[q] \in {"e", "E"} /\ MatchCssInteger(SubSeq(t, q + 1, Len(t)))

\* cssUnit: (?:cssInteger)|(?:cssNumber)%?  -- the %? binds to the second
\* alternative only
MatchCssUnit(t) ==
  \/ MatchCssInteger(t)
  \/ MatchCssNumber(t)
  \/ t # <<>> /\ t[Len(t)] = "%" /\ MatchCssNumber(SubSeq(t, 1, Len(t) - 1))

RECURSIVE SplitOn(_, _)
\* the pieces of s between the occurrences of c
SplitOn(s, c) ==
  IF \A i \in DOMAIN s : s[i] # c THEN <<s>>
  ELSE LET k == CHOOSE i \in DOMAIN s : s[i] = c /\ \A j \in 1..(i - 1) : s[j] # c
       IN  <<SubSeq(s, 1, k - 1)>> \o SplitOn(SubSeq(s, k + 1, Len(s)), c)

\* (?:spacedUnit,)*spacedUnit over the whole of s
MatchArgs(s) == \A part \in Range(SplitOn(s, ",")) : MatchCssUnit(trim(part))

\* genericFunc can match with its "(" at position p: a letter before it, and
\* after it an argument list closed by the next ")"
FuncMatchAt(s, p) ==
  /\ p > 1 /\ s[p] = "(" /\ IsLetter(s[p - 1])
  /\ \E q \in (p + 1)..Len(s) :
       /\ s[q] = ")"
       /\ \A j \in (p + 1)..(q - 1) : s[j] # ")"
       /\ MatchArgs(SubSeq(s, p + 1, q - 1))

RECURSIVE LetterRunStart(_, _)
\* where the run of letters that ends at position p starts
LetterRunStart(s, p) == IF p > 1 /\ IsLetter(s[p - 1]) THEN LetterRunStart(s, p - 1) ELSE p

NoMatch == [matched |-> FALSE]

\* matchers.matchFunc: matchers.func is not anchored, so exec finds the
\* leftmost match anywhere in the input
matchFunc(s) ==
  IF ~\E p \in DOMAIN s : FuncMatchAt(s, p) THEN NoMatch
  ELSE LET p == CHOOSE i \in DOMAIN s : FuncMatchAt(s, i) /\ \A j \in 1..(i - 1) : ~FuncMatchAt(s, j)
           q == CHOOSE i \in (p + 1)..Len(s) : s[i] = ")" /\ \A j \in (p + 1)..(i - 1) : s[j] # ")"
           parts == SplitOn(trim(SubSeq(s, p + 1, q - 1)), ",")
       IN  [matched |-> TRUE,
            name |-> toLowerCase(SubSeq(s, LetterRunStart(s, p - 1), p - 1)),
            args |-> [i \in DOMAIN parts |-> trim(parts[i])]]

----------------------------------------------------------------------------
(* Luma.funcs and Luma.parse *)

Str_1 == <<"1">>

funcs_rgba(r, g, b, a) ==
  Color(cssNumber(r, Num(255)), cssNumber(g, Num(255)), cssNumber(b, Num(255)), cssNumber(a, Num(1)))

funcs_hsla(h, s, l, a) ==
  hsl(cssNumber(h, Num(360)), cssNumber(s, Num(100)), cssNumber(l, Num(100)), cssNumber(a, Num(1)))

funcs_hsva(h, s, v, a) ==
  hsv(cssNumber(h, Num(360)), cssNumber(s, Num(100)), cssNumber(v, Num(100)), cssNumber(a, Num(1)))

\* func(...args): a parameter with no argument is undefined, and cssNumber
\* throws a TypeError on undefined.slice; arguments beyond the parameters
\* are ignored
funcs_call(name, args) ==
  CASE name = STR_rgb  -> IF Len(args) < 3 THEN Thrown
                          ELSE funcs_rgba(args[1], args[2], args[3], Str_1)
    [] name = STR_rgba -> IF Len(args) < 4 THEN Thrown
                          ELSE funcs_rgba(args[1], args[2], args[3], args[4])
    [] name = STR_hsl  -> IF Len(args) < 3 THEN Thrown
                          ELSE funcs_hsla(args[1], args[2], args[3], Str_1)
    [] name = STR_hsla -> IF Len(args) < 4 THEN Thrown
                          ELSE funcs_hsla(args[1], args[2], args[3], args[4])
    [] name = STR_hsv  -> IF Len(args) < 3 THEN Thrown
                          ELSE funcs_hsva(args[1], args[2], args[3], Str_1)
    [] name = STR_hsva -> IF Len(args) < 4 THEN Thrown
                          ELSE funcs_hsva(args[1], args[2], args[3], args[4])
    [] name = STR_constructor -> OtherObject
    [] OTHER -> Null

parse(input) ==
  LET m == matchFunc(input)
  IN  IF ~m.matched THEN Null ELSE funcs_call(toLowerCase(m.name), m.args)

----------------------------------------------------------------------------
(* Luma.legacy, step by step *)

RECURSIVE FlattenRange(_, _, _)
\* ss[lo] \o ... \o ss[hi]
FlattenRange(ss, lo, hi) ==
  IF lo > hi THEN <<>>
  ELSE IF lo = hi THEN ss[lo]
  ELSE LET mid == (lo + hi) \div 2
       IN  FlattenRange(ss, lo, mid) \o FlattenRange(ss, mid + 1, hi)

Flatten(ss) == FlattenRange(ss, 1, Len(ss))

\* the class [^\x00-\uFFFF] without the u flag: every UTF-16 code unit is in \x00-\uFFFF
InBasicRange(c) == c \in STRING

\* step 7
legacyStep7(s) ==
  Flatten([i \in DOMAIN s |-> IF InBasicRange(s[i]) THEN <<s[i]>> ELSE <<"0", "0">>])

\* step 8 left out
legacyStep8_NoTruncation(s) == s

\* step 8
legacyStep8(s) == SubSeq(s, 1, IF Len(s) < 128 THEN Len(s) ELSE 128)

\* step 9 left out
legacyStep9_KeepHash(s) == s

\* step 9
legacyStep9(s) == IF s # <<>> /\ s[1] = "#" THEN Tail(s) ELSE s

\* step 10
legacyStep10(s) == [i \in DOMAIN s |-> IF IsHexDigit(s[i]) THEN s[i] ELSE "0"]

\* step 11 with the test for the empty string forgotten
legacyStep11_NoEmptyTest(s) == s \o [i \in 1..((3 - (Len(s) % 3)) % 3) |-> "0"]

RECURSIVE legacyStep11(_)
legacyStep11(s) == IF Len(s) = 0 \/ Len(s) % 3 # 0 THEN legacyStep11(Append(s, "0")) ELSE s

\* step 12: the matches of .{length} with the g flag
legacyStep12(s) ==
  LET length == Len(s) \div 3
  IN  [i \in 1..3 |-> SubSeq(s, (i - 1) * length + 1, i * length)]

\* step 13
legacyStep13(components) ==
  IF Len(components[1]) > 8
  THEN [i \in DOMAIN components |->
          SubSeq(components[i], Len(components[i]) - 7, Len(components[i]))]
  ELSE components

\* step 14 as a single strip in place of the loop
legacyStep14_Once(components) ==
  IF Len(components[1]) > 2 /\ \A i \in DOMAIN components : components[i][1] = "0"
  THEN [i \in DOMAIN components |-> Tail(components[i])]
  ELSE components

RECURSIVE legacyStep14(_)
legacyStep14(components) ==
  IF Len(components[1]) > 2 /\ \A i \in DOMAIN components : components[i][1] = "0"
  THEN legacyStep14([i \in DOMAIN components |-> Tail(components[i])])
  ELSE components

\* step 15
legacyStep15(components) ==
  IF Len(components[1]) > 2
  THEN [i \in DOMAIN components |-> SubSeq(components[i], 1, 2)]
  ELSE components

legacyComponents(s) ==
  legacyStep15(legacyStep14(legacyStep13(legacyStep12(legacyStep11(
    legacyStep10(legacyStep9(legacyStep8(legacyStep7(s)))))))))

\* legacy with the empty-string test of step 2 made after the trim of step 3
legacy_EmptyAfterTrim(input) ==
  LET trimmed == trim(input)
      lower == toLowerCase(trimmed)
      components == legacyComponents(trimmed)
  IN  IF trimmed = <<>> THEN Null
      ELSE IF lower = STR_transparent THEN Null
      ELSE IF hasOwnProperty(colorKeywords_css3, lower)
           THEN hex6(lookup(colorKeywords_css3, lower))
      ELSE IF hex3(trimmed) # Null THEN hex3(trimmed)
      ELSE Color(parseInt16(components[1]), parseInt16(components[2]),
                 parseInt16(components[3]), Num(1))

\* legacy without the hex3 shortcut of step 6
legacy_NoHex3(input) ==
  IF input = <<>> THEN Null
  ELSE LET trimmed == trim(input)
           lower == toLowerCase(trimmed)
           components == legacyComponents(trimmed)
       IN  IF lower = STR_transparent THEN Null
           ELSE IF hasOwnProperty(colorKeywords_css3, lower)
                THEN hex6(lookup(colorKeywords_css3, lower))
           ELSE Color(parseInt16(components[1]), parseInt16(components[2]),
                      parseInt16(components[3]), Num(1))

legacy(input) ==
  IF input = <<>> THEN Null
  ELSE LET trimmed == trim(input)
           lower == toLowerCase(trimmed)
           components == legacyComponents(trimmed)
       IN  IF lower = STR_transparent THEN Null
           ELSE IF hasOwnProperty(colorKeywords_css3, lower)
                THEN hex6(lookup(colorKeywords_css3, lower))
           ELSE IF hex3(trimmed) # Null THEN hex3(trimmed)
           ELSE Color(parseInt16(components[1]), parseInt16(components[2]),
                      parseInt16(components[3]), Num(1))

----------------------------------------------------------------------------
(* The compatibility levels *)

html4(input) ==
  LET lower == toLowerCase(input)
  IN  hex6(IF hasOwnProperty(colorKeywords_html4, lower)
           THEN lookup(colorKeywords_html4, lower) ELSE input)

css1(input) ==
  LET lower == toLowerCase(input)
      in2 == IF hasOwnProperty(colorKeywords_html4, lower)
             THEN lookup(colorKeywords_html4, lower) ELSE input
  IN  IF hex6(in2) # Null THEN hex6(in2) ELSE hex3(in2)

isSystem(input) == toLowerCase(input) \in colorKeywords_css2System

\* css2 without the special case of orange
css2_NoOrange(input) == IF isSystem(input) THEN Null ELSE css1(input)

css2(input) ==
  IF toLowerCase(input) = STR_orange THEN hex6(STR_hash_ffa500)
  ELSE IF isSystem(input) THEN Null
  ELSE css1(input)

----------------------------------------------------------------------------
(* The inputs the calls are made with *)

\* bounds of the input sets
MaxLen == 3

MaxPad == 1

MaxArgs == 4

MaxOver == 1

HueStep == 30

MaxTurns == 1

PctStep == 50

Alphabet == {"#", "0", "1", "a", "F", "g", " "}

WsChars == {" ", "\t", "\n", "\f", "\r"}

HexSample == {"0", "9", "a", "F"}

Seqs(S, n) == UNION {[1..k -> S] : k \in 0..n}

ShortTexts == Seqs(Alphabet, MaxLen)

\* "<D83D>" and the like are single surrogate code units
NamedTexts ==
  {
    <<"t", "r", "a", "n", "s", "p", "a", "r", "e", "n", "t">>,
    <<"T", "r", "A", "n", "S", "p", "A", "r", "E", "n", "T">>,
    <<"c", "o", "r", "n", "f", "l", "o", "w", "e", "r", "b", "l", "u", "e">>,
    <<"G", "o", "l", "d", "e", "n", "R", "o", "d">>,
    <<"r", "e", "b", "e", "c", "c", "a", "p", "u", "r", "p", "l", "e">>,
    <<"o", "r", "a", "n", "g", "e">>,
    <<"O", "R", "A", "N", "G", "E">>,
    <<"R", "e", "d">>,
    <<"g", "r", "a", "y">>,
    <<"W", "i", "n", "d", "o", "w">>,
    <<"B", "u", "t", "t", "o", "n", "F", "a", "c", "e">>,
    <<"#", "a", "b", "c", "1", "2", "3">>,
    <<"#", "F", "F", "F", "F", "F", "F">>,
    <<"#", "B", "A", "N", "A", "N", "A">>,
    <<"C", "h", "u", "c", "k", " ", "N", "o", "r", "r", "i", "s">>,
    <<"#", "1", "2", "3", "4", "5">>,
    <<"#", "1", "2", "3", "4", "5", "6", "7">>,
    <<"1", "2", "3", "4", "5", "6">>,
    <<"#", "0", "1", "2", "0", "3", "4", "0", "5", "6">>,
    <<"#", "1", "2", "3", "a", "b", "c", "4", "5", "6">>,
    <<"#", "0", "1", "2", "3", "4", "5", "6", "7", "8", "9", "a", "b">>,
    <<"#", "0", "0", "0", "1", "0", "0", "2", "3", "0", "0", "0", "0">>,
    <<"#", "a", "<D83D>", "<DE03>", "b", "<D83D>", "<DE09>">>,
    <<"#", "a", "b", "c", "<D83D>", "<DE00>", "d">>,
    <<"#", "1", "2", "3", "4", "5", "6", "7", "8", "9", "1", "2", "3", "4", "5", "6", "7", "8", "9", "1", "2", "3", "4", "5", "6", "7", "8", "9">>,
    <<"#", "A", "0", "1", "2", "3", "4", "5", "6", "7", "A", "0", "1", "2", "3", "4", "5", "6", "7", "A", "0", "1", "2", "3", "4", "5", "6", "7">>,
    <<"#", "a", "b", "\t", "c">>,
    <<"#", " ", "a", " ", "b">>,
    <<" ", " ", "#", "a", "b", "c", "1", "2", "3", " ", " ", " ">>,
    <<" ", "\t", "\n", "\f", "\r", "#", "f", "f", "f", "f", "f", "f">>,
    <<" ", "t", "r", "a", "n", "s", "p", "a", "r", "e", "n", "t", "\n">>,
    <<"\t", "#", "A", "b", "c", "\r", " ">>,
    <<" ", " ", " ">>,
    <<" ", "\t", "\n", "\f", "\r">>
  }

LongTexts ==
  {
    <<"1", "2", "3", "4", "5", "6", "7", "8", "9", "A", "B", "C", "D", "E", "F", "1", "2", "3", "4", "5", "6", "7", "8", "9", "A", "B", "C", "D", "E", "F", "1", "2", "3", "4", "5", "6", "7", "8", "9", "A", "B", "C", "D", "E", "F", "1", "2", "3", "4", "5", "6", "7", "8", "9", "A", "B", "C", "D", "E", "F", "1", "2", "3", "4", "5", "6", "7", "8", "9", "A", "B", "C", "D", "E", "F", "1", "2", "3", "4", "5", "6", "7", "8", "9", "A", "B", "C", "D", "E", "F", "1", "2", "3", "4", "5", "6", "7", "8", "9", "A", "B", "C", "D", "E", "F", "1", "2", "3", "4", "5", "6", "7", "8", "9", "A", "B", "C", "D", "E", "F", "1", "2", "3", "4", "5", "6", "7", "8", "9", "A", "B", "C", "D", "E", "F", "1", "2", "3", "4", "5", "6", "7", "8", "9", "A", "B", "C", "D", "E", "F">>,
    <<"0", "0", "0", "1", "0", "0", "2", "0", "0", "0", "1", "0", "0", "2", "0", "0", "0", "1", "0", "0", "2", "0", "0", "0", "1", "0", "0", "2", "0", "0", "0", "1", "0", "0", "2", "0", "0", "0", "1", "0", "0", "2", "0", "0", "0", "1", "0", "0", "2", "0", "0", "0", "1", "0", "0", "2", "0", "0", "0", "1", "0", "0", "2", "0", "0", "0", "1", "0", "0", "2", "0", "0", "0", "1", "0", "0", "2", "0", "0", "0", "1", "0", "0", "2", "0", "0", "0", "1", "0", "0", "2", "0", "0", "0", "1", "0", "0", "2", "0", "0", "0", "1", "0", "0", "2", "0", "0", "0", "1", "0", "0", "2", "0", "0", "0", "1", "0", "0", "2", "0", "0", "0", "1", "0", "0", "2", "0", "0", "0", "1", "0", "0", "2", "0", "0", "0", "1", "0", "0", "2">>
  }

Hex3Texts == {<<"#", a, b, c>> : a \in HexSample, b \in HexSample, c \in HexSample}

\* white space before and after, at most MaxPad characters in all
Pads == {p \in Seqs(WsChars, MaxPad) \X Seqs(WsChars, MaxPad) : Len(p[1]) + Len(p[2]) <= MaxPad}

Padded(S) == {p[1] \o s \o p[2] : p \in Pads, s \in S}

PlainTexts == ShortTexts \cup NamedTexts \cup Hex3Texts

\* lengths around the 128 of step 8
CutLengths == {126, 127, 128, 129, 130}

\* the long fixtures cut around 128 characters, bare, after "#", and with a
\* surrogate pair or white space across the cut
CutTexts ==
  UNION {{SubSeq(s, 1, n),
          <<"#">> \o SubSeq(s, 1, n),
          SubSeq(s, 1, 127) \o <<"<D83D>", "<DE00>">> \o SubSeq(s, 1, n - 126),
          SubSeq(s, 1, 127) \o <<" ", "g">> \o SubSeq(s, 1, n - 126)} :
           s \in LongTexts, n \in CutLengths}

\* "#" and six hexadecimal digits, with and without leading zeros
Hex6Texts ==
  {<<"#", a, b, c, a, b, c>> : a \in HexSample, b \in HexSample, c \in HexSample}
  \cup {<<"#", "0", a, "0", b, "0", c>> : a \in HexSample, b \in HexSample, c \in HexSample}

LegacyTexts ==
  ShortTexts \cup Padded(NamedTexts \cup Hex3Texts) \cup LongTexts \cup CutTexts \cup Hex6Texts

FuncNames ==
  {
    <<"r", "g", "b">>,
    <<"r", "g", "b", "a">>,
    <<"h", "s", "l">>,
    <<"h", "s", "l", "a">>,
    <<"h", "s", "v">>,
    <<"h", "s", "v", "a">>,
    <<"R", "G", "B">>,
    <<"f", "o", "o">>,
    <<"c", "o", "n", "s", "t", "r", "u", "c", "t", "o", "r">>
  }

Tokens ==
  {
    <<"-", "3", "0">>,
    <<"4", "0", "0">>,
    <<"1", "0", "0">>,
    <<"5", "0">>,
    <<"5", "0", "%">>,
    <<"2", ".", "5", "e", "1">>
  }

ExtraTokens ==
  {
    <<"1">>,
    <<".", "5">>,
    <<"2", "0", "0", "%">>
  }

Junk ==
  {
    <<"x">>,
    <<" ">>,
    <<"#">>,
    <<"r", "g", "b", "(">>,
    <<"1", ")">>
  }

\* argument lists: up to three of Tokens, then ExtraTokens up to MaxArgs
ArgLists ==
  {a \in Seqs(Tokens \cup ExtraTokens, MaxArgs) :
     /\ Len(a) >= 1
     /\ \A i \in DOMAIN a : IF i <= 3 THEN a[i] \in Tokens ELSE a[i] \in ExtraTokens}

RECURSIVE Join(_, _)
Join(ss, sep) ==
  IF Len(ss) = 0 THEN <<>>
  ELSE IF Len(ss) = 1 THEN ss[1]
  ELSE ss[1] \o sep \o Join(Tail(ss), sep)

FuncText(name, args, sep) == name \o <<"(">> \o Join(args, sep) \o <<")">>

SampleArgLists == {a \in ArgLists : Len(a) >= 2 /\ \A i \in DOMAIN a : a[i] = a[1] \/ i > 3}

ParseTexts ==
  {FuncText(name, args, <<",">>) : name \in FuncNames, args \in ArgLists}
  \cup {FuncText(name, args, <<" ", ",", "\t">>) : name \in FuncNames, args \in SampleArgLists}
  \cup {FuncText(name, <<<<" ">> \o args[1] \o <<"\n">>>> \o Tail(args), <<",">>) :
          name \in FuncNames, args \in SampleArgLists}
  \cup {pre \o FuncText(name, args, <<",">>) \o post :
          pre \in Junk \cup {<<>>}, post \in Junk \cup {<<>>},
          name \in FuncNames, args \in {a \in SampleArgLists : Len(a) = 3}}
  \cup PlainTexts

\* "rgb(255, 0, 0)"
RgbRedText == <<"r", "g", "b", "(", "2", "5", "5", ",", " ", "0", ",", " ", "0", ")">>

UpperCaseChar(c) == IF IsLower(c) THEN UpperLetters[IndexOf(LowerLetters, c)] ELSE c

\* the system colour names in lower case, in upper case and in mixed case
SystemTexts ==
  colorKeywords_css2System
  \cup {[i \in DOMAIN s |-> UpperCaseChar(s[i])] : s \in colorKeywords_css2System}
  \cup {[i \in DOMAIN s |-> IF i % 2 = 1 THEN UpperCaseChar(s[i]) ELSE s[i]] :
          s \in colorKeywords_css2System}

\* the texts css1 and css2 are called with: the plain ones, the system
\* colour names, and rgb in functional notation
LevelTexts ==
  PlainTexts \cup {RgbRedText} \cup SystemTexts
  \cup {FuncText(STR_rgb, args, <<",">>) : args \in {a \in SampleArgLists : Len(a) = 3}}

Channels == {Num(i) : i \in (0 - MaxOver)..(255 + MaxOver)}

ChannelSample == {Num(0), Num(255)}

OddNumbers == {Frac(1, 2), Frac(509, 2), Frac(-1, 2), Num(300)}

Alphas == {Num(-1), Num(0), Frac(1, 2), Num(1), Num(2)}

RgbArgs ==
  {<<r, g, b, Num(1)>> : r \in Channels, g \in ChannelSample, b \in ChannelSample}
  \cup {<<r, g, b, Num(1)>> : r \in ChannelSample, g \in Channels, b \in ChannelSample}
  \cup {<<r, g, b, Num(1)>> : r \in ChannelSample, g \in ChannelSample, b \in Channels}
  \cup {<<r, g, b, a>> : r \in OddNumbers, g \in OddNumbers \cup {Num(0)}, b \in OddNumbers, a \in Alphas}

Hues ==
  {Num(HueStep * i) : i \in (0 - (360 * MaxTurns) \div HueStep)..((360 * MaxTurns) \div HueStep)}
  \cup {Num(-30), Num(40), Num(330), Num(400)}

OddHues == {Frac(1, 2), Frac(-61, 2), Frac(100, 3)}

Percents ==
  {Num(PctStep * i) : i \in (-1)..((100 \div PctStep) + 1)}
  \cup {Num(0), Num(50), Num(100)}

OddPercents == {Frac(1, 2), Frac(199, 2)}

HueSample == {Num(-30), Num(0), Num(40), Num(330), Num(400)}

\* a fractional hue goes with whole percentages, and the other way round;
\* an alpha other than the default 1 goes with the hues of HueSample
HslArgs ==
  {<<h, s, l, Num(1)>> : h \in Hues, s \in Percents \cup OddPercents,
                         l \in Percents \cup OddPercents}
  \cup {<<h, s, l, Num(1)>> : h \in OddHues, s \in Percents, l \in Percents}
  \cup {<<h, s, l, a>> : h \in HueSample, s \in Percents, l \in Percents, a \in Alphas}

----------------------------------------------------------------------------
(* The state machine: one call of an entry point, then optionally the      *)
(* Color it returned printed by toHexString and the text parsed by hex6.   *)
(*   op      the last operation                                            *)
(*   text    the text argument of the last call, or what toHexString gave  *)
(*   nums    the numeric arguments of the last call                        *)
(*   result  what the last entry point returned                            *)
(*   self    the Color toHexString was called on, with useShort            *)
(*   maker   the entry point that returned self                            *)

NoSelf == [kind |-> "none"]

Init ==
  /\ op = "init"
  /\ text = <<>>
  /\ nums = <<>>
  /\ result = Null
  /\ self = NoSelf
  /\ maker = "none"

TextCall(name, input, outcome) ==
  /\ op' = name
  /\ text' = input
  /\ result' = outcome
  /\ UNCHANGED <<nums, self, maker>>

NumCall(name, args, outcome) ==
  /\ op' = name
  /\ nums' = args
  /\ result' = outcome
  /\ UNCHANGED <<text, self, maker>>

CallRgb == op = "init" /\ \E x \in RgbArgs : NumCall("rgb", x, rgb(x[1], x[2], x[3], x[4]))

CallHsl == op = "init" /\ \E x \in HslArgs : NumCall("hsl", x, hsl(x[1], x[2], x[3], x[4]))

CallHsv == op = "init" /\ \E x \in HslArgs : NumCall("hsv", x, hsv(x[1], x[2], x[3], x[4]))

CallHex3 == op = "init" /\ \E s \in PlainTexts : TextCall("hex3", s, hex3(s))

CallHex6 == op = "init" /\ \E s \in PlainTexts : TextCall("hex6", s, hex6(s))

CallParse == op = "init" /\ \E s \in ParseTexts : TextCall("parse", s, parse(s))

CallLegacy == op = "init" /\ \E s \in LegacyTexts : TextCall("legacy", s, legacy(s))

CallHtml4 == op = "init" /\ \E s \in PlainTexts : TextCall("html4", s, html4(s))

CallCss1 == op = "init" /\ \E s \in LevelTexts : TextCall("css1", s, css1(s))

CallCss2 == op = "init" /\ \E s \in LevelTexts : TextCall("css2", s, css2(s))

\* result.toHexString(useShort), on the Color an entry point returned
CallToHexString ==
  \E useShort \in BOOLEAN :
    /\ op \notin {"init", "toHexString", "reparse", "relegacy"}
    /\ IsColor(result)
    /\ op' = "toHexString"
    /\ text' = toHexString(result, useShort)
    /\ self' = [color |-> result, useShort |-> useShort]
    /\ maker' = op
    /\ nums' = <<>>
    /\ UNCHANGED result

\* Luma.hex6 of the text toHexString returned
ReparseHex6 ==
  /\ op = "toHexString"
  /\ op' = "reparse"
  /\ result' = hex6(text)
  /\ UNCHANGED <<text, nums, self, maker>>

\* Luma.legacy of the text toHexString returned for a Color of Luma.legacy
ReparseLegacy ==
  /\ op = "toHexString"
  /\ maker = "legacy"
  /\ op' = "relegacy"
  /\ result' = legacy(text)
  /\ UNCHANGED <<text, nums, self, maker>>

Next ==
  \/ CallRgb
  \/ CallHsl
  \/ CallHsv
  \/ CallHex3
  \/ CallHex6
  \/ CallParse
  \/ CallLegacy
  \/ CallHtml4
  \/ CallCss1
  \/ CallCss2
  \/ CallToHexString
  \/ ReparseHex6
  \/ ReparseLegacy

Spec == Init /\ [][Next]_vars

----------------------------------------------------------------------------
(* Properties *)

ChannelOk(x) == IsInteger(x) /\ 0 <= x.n /\ x.n <= 255

AlphaOk(x) == IsFinite(x) /\ NumLe(Num(0), x) /\ NumLe(x, Num(1))

\* s as a whole has the form name(arg, arg, ...)
WholeFunctionalForm(s) ==
  \E p \in 2..(Len(s) - 1) :
    /\ s[p] = "("
    /\ \A i \in 1..(p - 1) : IsLetter(s[i])
    /\ s[Len(s)] = ")"
    /\ MatchArgs(SubSeq(s, p + 1, Len(s) - 1))

\* an integer followed by %
IsIntegerPercent(tok) ==
  tok # <<>> /\ tok[Len(tok)] = "%" /\ MatchCssInteger(SubSeq(tok, 1, Len(tok) - 1))

\* C1, as stated: for every non-empty input that is not case-insensitively
\* "transparent", legacy returns a Color.
C1_LegacyTotalUntrimmed ==
  (op = "legacy" /\ text # <<>> /\ toLowerCase(text) # STR_transparent) => IsColor(result)

\* C1, amended: for every non-empty input whose text without leading and
\* trailing white space is not case-insensitively "transparent", legacy
\* returns a Color.
C1_LegacyTotal ==
  (op = "legacy" /\ text # <<>> /\ toLowerCase(trim(text)) # STR_transparent) => IsColor(result)

\* an input of white space only, and an input that is no keyword and no hex3
C1_Witness ==
  /\ op = "legacy"
  /\ text # <<>>
  /\ IsColor(result)
  /\ \/ trim(text) = <<>>
     \/ /\ Len(text) > Len(trim(text))
        /\ ~hasOwnProperty(colorKeywords_css3, toLowerCase(trim(text)))
        /\ ~MatchHex3(trim(text))

\* C2: every Color an entry point returns has r, g and b integers in
\* [0, 255] and a in [0, 1].
C2_ColorInRange ==
  (op # "init" /\ IsColor(result)) =>
    /\ ChannelOk(result.r)
    /\ ChannelOk(result.g)
    /\ ChannelOk(result.b)
    /\ AlphaOk(result.a)

\* C3: parse never raises an exception: its outcome is a Color or null.
C3_ParseNeverThrows == op = "parse" => result.kind \in {"color", "null"}

\* C4: for every Color c that rgb(r, g, b) returns, c.toHexString(false) is
\* "#" and six hexadecimal digits, and hex6 of it is a Color equal to c.
C4_HexRoundTrip ==
  (op = "reparse" /\ maker = "rgb" /\ ~self.useShort /\ NumEq(self.color.a, Num(1))) =>
    /\ MatchHex6(text)
    /\ IsColor(result)
    /\ equals(result, self.color)

\* a channel of one hexadecimal digit, printed with its zero and read back
C4_Witness ==
  /\ op = "reparse"
  /\ maker = "rgb"
  /\ ~self.useShort
  /\ self.color = rgb(Num(10), Num(255), Num(0), Num(1))
  /\ text = <<"#", "0", "a", "f", "f", "0", "0">>
  /\ IsColor(result)

\* C5: parse returns null for every input that does not as a whole have the
\* form name(arg, arg, ...).
C5_ParseWholeString == (op = "parse" /\ ~WholeFunctionalForm(text)) => result = Null

\* C6: rgb with three integer or integer-percentage arguments, one of them a
\* percentage, matches, and each p% is read as max*p/100 clamped to [0, max].
C6_IntegerPercent ==
  op = "parse" =>
    \A a \in ArgLists :
      ( /\ Len(a) = 3
        /\ text = FuncText(STR_rgb, a, <<",">>)
        /\ \A i \in 1..3 : MatchCssInteger(a[i]) \/ IsIntegerPercent(a[i])
        /\ \E i \in 1..3 : IsIntegerPercent(a[i]) )
      => /\ IsColor(result)
         /\ equals(result, funcs_rgba(a[1], a[2], a[3], Str_1))

\* C7: for integers H, S and L, parse of hsl(H,S,L) equals Luma.hsl(H, S, L):
\* the hue is reduced modulo 360 and never clamped.
C7_HueNotClamped ==
  op = "parse" =>
    \A a \in ArgLists :
      ( /\ Len(a) = 3
        /\ text = FuncText(STR_hsl, a, <<",">>)
        /\ \A i \in 1..3 : MatchCssInteger(a[i]) )
      => /\ IsColor(result)
         /\ equals(result, hsl(parseFloat(a[1]), parseFloat(a[2]), parseFloat(a[3]), Num(1)))

\* C8: hsl(h + 360*k, s, l, a) equals hsl(h, s, l, a) for every integer k,
\* and the normalized hue is in [0, 1).
C8_HueWraparound ==
  op = "hsl" =>
    /\ NumLe(Num(0), hslHue(nums[1])) /\ NumLt(hslHue(nums[1]), Num(1))
    /\ \A k \in (0 - MaxTurns - 1)..(MaxTurns + 1) :
         equals(hsl(NumAdd(nums[1], Num(360 * k)), nums[2], nums[3], nums[4]), result)

\* hsl(-30, 100, 50) is the colour of hsl(330, 100, 50)
C8_Witness ==
  /\ op = "hsl"
  /\ nums = <<Num(-30), Num(100), Num(50), Num(1)>>
  /\ result.r = Num(255) /\ result.g = Num(0) /\ result.b = Num(128)
  /\ equals(result, hsl(Num(330), Num(100), Num(50), Num(1)))

\* C9: hsl with saturation <= 0 returns r = g = b = 0 for every hue and
\* lightness, with alpha a clamped to [0, 1].
C9_ZeroSaturationBlack ==
  (op = "hsl" /\ NumLe(nums[2], Num(0))) =>
    /\ IsColor(result)
    /\ result.r = Num(0) /\ result.g = Num(0) /\ result.b = Num(0)
    /\ result.a = (IF NumLt(nums[4], Num(0)) THEN Num(0)
                   ELSE IF NumLt(Num(1), nums[4]) THEN Num(1) ELSE nums[4])

\* saturation 0 at full lightness, with an alpha above 1
C9_Witness ==
  /\ op = "hsl"
  /\ nums[2] = Num(0) /\ nums[3] = Num(100) /\ nums[4] = Num(2)
  /\ result = [kind |-> "color", r |-> Num(0), g |-> Num(0), b |-> Num(0), a |-> Num(1)]

\* C10: for an input that without its leading and trailing white space is
\* "#" and three hexadecimal digits d1 d2 d3, legacy returns the Color
\* (17*d1, 17*d2, 17*d3) with alpha 1, which is hex3 of the stripped text.
C10_LegacyHex3 ==
  LET t == trim(text)
  IN  (op = "legacy" /\ Len(t) = 4 /\ t[1] = "#" /\ \A i \in 2..4 : IsHexDigit(t[i])) =>
        /\ result = [kind |-> "color", r |-> Num(17 * HexVal(t[2])),
                     g |-> Num(17 * HexVal(t[3])), b |-> Num(17 * HexVal(t[4])), a |-> Num(1)]
        /\ result = hex3(t)

\* "#Abc" between white space
C10_Witness ==
  /\ op = "legacy"
  /\ text = <<"\t", "#", "A", "b", "c", "\r", " ">>
  /\ result.r = Num(170) /\ result.g = Num(187) /\ result.b = Num(204)
  /\ result.a = Num(1)

Black == [kind |-> "color", r |-> Num(0), g |-> Num(0), b |-> Num(0), a |-> Num(1)]

\* C11: legacy of the empty string is null; legacy of a non-empty input of
\* white space only, and of "#", is the Color (0, 0, 0) with alpha 1, the
\* emptied text being padded to "000".
C11_LegacyEmptyAndBlank ==
  op = "legacy" =>
    /\ text = <<>> => result = Null
    /\ (text # <<>> /\ ((\A i \in DOMAIN text : IsWs(text[i])) \/ text = <<"#">>)) =>
         /\ result = Black
         /\ legacyStep11(legacyStep10(legacyStep9(legacyStep8(legacyStep7(trim(text))))))
              = <<"0", "0", "0">>

\* the five white space characters, and nothing else
C11_Witness ==
  /\ op = "legacy"
  /\ text = <<" ", "\t", "\n", "\f", "\r">>
  /\ result = Black

IsHighSurrogate(c) == c \in {"<D83D>"}

IsLowSurrogate(c) == c \in {"<DE00>", "<DE03>", "<DE09>"}

\* s with each character outside the basic plane (a high surrogate and the
\* low surrogate after it) replaced by "00"
Replaced(s) ==
  Flatten([i \in DOMAIN s |->
             IF i < Len(s) /\ IsHighSurrogate(s[i]) /\ IsLowSurrogate(s[i + 1])
             THEN <<"0", "0">>
             ELSE IF i > 1 /\ IsLowSurrogate(s[i]) /\ IsHighSurrogate(s[i - 1]) THEN <<>>
             ELSE <<s[i]>>])

Prefix128(s) == SubSeq(s, 1, IF Len(s) < 128 THEN Len(s) ELSE 128)

\* not "transparent", no keyword, no hex3 string
PastShortcuts(s) ==
  /\ toLowerCase(s) # STR_transparent
  /\ ~hasOwnProperty(colorKeywords_css3, toLowerCase(s))
  /\ ~MatchHex3(s)

\* what may follow the first 128 characters
Tails == {<<>>, <<"F">>, <<"0", "0", "0">>, <<"g", " ", "1">>, <<"<DE00>", "a">>, <<"#", "F", "F", "F", "F">>}

\* C12: for a stripped text that is not "transparent", no keyword and no
\* hex3 string, the result of legacy is that of every other such text with
\* the same first 128 characters after the replacement of characters
\* outside the basic plane by "00", and no component is longer than 43.
C12_LegacyFirst128 ==
  (op = "legacy" /\ text # <<>> /\ PastShortcuts(trim(text))) =>
    /\ IsColor(result)
    /\ Len(legacyStep12(legacyStep11(legacyStep10(legacyStep9(legacyStep8(
          legacyStep7(trim(text)))))))[1]) <= 43
    /\ \A tail \in Tails :
         LET u == Prefix128(Replaced(trim(text))) \o
                    (IF Len(Replaced(trim(text))) < 128 THEN <<>> ELSE tail)
         IN  (u # <<>> /\ u = trim(u) /\ PastShortcuts(u)) => equals(legacy(u), result)

\* 150 characters, of which 128 are kept and padded to three components of 43
C12_Witness ==
  /\ op = "legacy"
  /\ Len(text) = 150
  /\ text[1] = "1"
  /\ Len(legacyStep12(legacyStep11(legacyStep10(legacyStep9(legacyStep8(
        legacyStep7(trim(text)))))))[1]) = 43
  /\ result.r = Num(103) /\ result.g = Num(69) /\ result.b = Num(35)
  /\ equals(legacy(Prefix128(text) \o <<"F">>), result)

\* C13: css1 returns a Color for each of the 16 basic keywords in any letter
\* case, hex6 of a "#" and six digits text, hex3 of a "#" and three digits
\* text, and for rgb(r, g, b) with integer or percentage arguments the Color
\* of those channels: css1 of "rgb(255, 0, 0)" is (255, 0, 0) with alpha 1.
C13_Css1AcceptsRgb ==
  op = "css1" =>
    /\ hasOwnProperty(colorKeywords_html4, toLowerCase(text)) => IsColor(result)
    /\ MatchHex6(text) => result = hex6(text)
    /\ MatchHex3(text) => result = hex3(text)
    /\ text = RgbRedText =>
         result = [kind |-> "color", r |-> Num(255), g |-> Num(0), b |-> Num(0), a |-> Num(1)]
    /\ \A a \in ArgLists :
         ( /\ Len(a) = 3
           /\ text = FuncText(STR_rgb, a, <<",">>)
           /\ \A i \in 1..3 : MatchCssInteger(a[i]) \/ IsIntegerPercent(a[i]) \/ MatchCssUnit(a[i]) )
         => /\ IsColor(result)
            /\ equals(result, funcs_rgba(a[1], a[2], a[3], Str_1))

\* C14: css2 returns the Color (255, 165, 0) for "orange" in any letter
\* case, null for each of the 28 system colour names in any letter case, and
\* for every other input what css1 returns for it.
C14_Css2Levels ==
  op = "css2" =>
    /\ Cardinality(colorKeywords_css2System) = 28
    /\ IF toLowerCase(text) = STR_orange
       THEN result = [kind |-> "color", r |-> Num(255), g |-> Num(165), b |-> Num(0), a |-> Num(1)]
       ELSE IF toLowerCase(text) \in colorKeywords_css2System
       THEN result = Null
       ELSE result = css1(text)

\* "ORANGE", which css1 does not know
C14_Witness ==
  /\ op = "css2"
  /\ text = <<"O", "R", "A", "N", "G", "E">>
  /\ css1(text) = Null
  /\ result.r = Num(255) /\ result.g = Num(165) /\ result.b = Num(0)

\* three components of one length >= 1, of hexadecimal digits only
ComponentsOk(c) ==
  /\ Len(c) = 3
  /\ Len(c[1]) >= 1
  /\ \A i \in 1..3 : Len(c[i]) = Len(c[1]) /\ \A j \in DOMAIN c[i] : IsHexDigit(c[i][j])

\* the text legacy splits in step 12
SplitInput(s) == legacyStep11(legacyStep10(legacyStep9(legacyStep8(legacyStep7(trim(s))))))

\* C15: from the split to the final parse legacy holds three components of
\* one length >= 1, of hexadecimal digits only; step 14 removes the same
\* number of leading "0" from all three and stops as soon as the length is 2
\* or a component does not start with "0"; at the final parse the length is
\* 1 or 2 and every channel is an integer in [0, 255].
C15_LegacyComponents ==
  (op = "legacy" /\ text # <<>> /\ PastShortcuts(trim(text))) =>
    LET c12 == legacyStep12(SplitInput(text))
        c13 == legacyStep13(c12)
        c14 == legacyStep14(c13)
        c15 == legacyStep15(c14)
        k == Len(c13[1]) - Len(c14[1])
    IN  /\ ComponentsOk(c12) /\ ComponentsOk(c13) /\ ComponentsOk(c14) /\ ComponentsOk(c15)
        /\ k >= 0
        /\ \A i \in 1..3 :
             /\ c14[i] = SubSeq(c13[i], k + 1, Len(c13[i]))
             /\ \A j \in 1..k : c13[i][j] = "0"
        /\ k > 0 => Len(c14[1]) >= 2
        /\ Len(c14[1]) <= 2 \/ \E i \in 1..3 : c14[i][1] # "0"
        /\ Len(c15[1]) \in {1, 2}
        /\ result = [kind |-> "color", r |-> Num(HexValue(c15[1])), g |-> Num(HexValue(c15[2])),
                     b |-> Num(HexValue(c15[3])), a |-> Num(1)]
        /\ ChannelOk(result.r) /\ ChannelOk(result.g) /\ ChannelOk(result.b)

\* "#000100230000": components 0001, 0023, 0000 lose two zeros each
C15_Witness ==
  /\ op = "legacy"
  /\ text = <<"#", "0", "0", "0", "1", "0", "0", "2", "3", "0", "0", "0", "0">>
  /\ legacyStep13(legacyStep12(SplitInput(text))) =
       <<(<<"0", "0", "0", "1">>), (<<"0", "0", "2", "3">>), (<<"0", "0", "0", "0">>)>>
  /\ legacyStep14(legacyStep13(legacyStep12(SplitInput(text)))) =
       <<(<<"0", "1">>), (<<"2", "3">>), (<<"0", "0">>)>>
  /\ result.r = Num(1) /\ result.g = Num(35) /\ result.b = Num(0)

InPercentRange(x) == IsFinite(x) /\ NumLe(Num(0), x) /\ NumLe(x, Num(100))

\* C16: for every saturation and value in [0, 100] hsv divides by a number
\* other than zero, or skips the division, and returns a Color whose
\* channels are numbers.
C16_HsvNoZeroDivisor ==
  (op = "hsv" /\ InPercentRange(nums[2]) /\ InPercentRange(nums[3])) =>
    /\ NumEq(hsv_l2(nums[2], nums[3]), Num(2)) \/ ~NumEq(hsv_divisor(nums[2], nums[3]), Num(0))
    /\ IsColor(result)
    /\ IsFinite(result.r) /\ IsFinite(result.g) /\ IsFinite(result.b)

\* C17: with s = S/100 and v = V/100 the intermediate lightness of hsv is
\* (2 - s) * v / 2, and hsv(h, 100, 100, a) equals hsl(h, 100, 50, a).
C17_HsvUsesValue ==
  op = "hsv" =>
    /\ (InPercentRange(nums[2]) /\ InPercentRange(nums[3])) =>
         NumEq(NumDiv(hsv_l2(nums[2], nums[3]), Num(2)),
               NumDiv(NumMul(NumSub(Num(2), NumDiv(nums[2], Num(100))),
                             NumDiv(nums[3], Num(100))), Num(2)))
    /\ (nums[2] = Num(100) /\ nums[3] = Num(100)) =>
         /\ IsColor(result)
         /\ equals(result, hsl(nums[1], Num(100), Num(50), nums[4]))

\* C18: for "#" and six hexadecimal digits in any letter case legacy
\* returns a Color equal to hex6 of the same text, every channel the value
\* of its two digits; and legacy of c.toHexString(false) equals c for every
\* Color c that legacy returns.
C18_LegacyAgreesWithHex6 ==
  /\ (op = "legacy" /\ Len(text) = 7 /\ text[1] = "#" /\ \A i \in 2..7 : IsHexDigit(text[i])) =>
       /\ IsColor(result)
       /\ IsColor(hex6(text))
       /\ equals(result, hex6(text))
       /\ result.r = Num(16 * HexVal(text[2]) + HexVal(text[3]))
       /\ result.g = Num(16 * HexVal(text[4]) + HexVal(text[5]))
       /\ result.b = Num(16 * HexVal(text[6]) + HexVal(text[7]))
  /\ (op = "relegacy" /\ ~self.useShort) =>
       /\ IsColor(result)
       /\ equals(result, self.color)

\* a Color legacy returned, with a channel below 16, printed and read back
C18_Witness ==
  /\ op = "relegacy"
  /\ maker = "legacy"
  /\ ~self.useShort
  /\ text = <<"#", "0", "1", "2", "3", "0", "0">>
  /\ IsColor(result)
  /\ equals(result, self.color)

====
